---- MODULE Spec2Model ----
(***************************************************************************)
(* Model of server.js: the GraphQL resolvers signup, addEmployee,          *)
(* updateEmployee, deleteEmployee and getEmployeeById, and                  *)
(* the checkAuth helper.  Every resolver is an async function: the part up  *)
(* to its first await runs at the call, and each awaited store operation    *)
(* is a later step that may interleave with the steps of other requests.    *)
(* Strings are sequences of one-character strings.                          *)
(***************************************************************************)
EXTENDS Integers, Sequences, FiniteSets, TLC

\* ---------------------------------------------------------------- bounds
MaxReq == 2         \* requests in flight at once
MaxUsers == 2       \* User documents ever created
MaxEmployees == 2   \* Employee documents ever created
MaxTicks == 2       \* clock advances
TickStep == 2000    \* seconds per clock advance
MaxPieces == 3      \* pieces concatenated into a probed header value

\* ------------------------------------------------------------- JS values
\* A possibly-undefined JS value: <<>> is undefined, <<v>> is the value v.
Undefined == <<>>
Some(v) == <<v>>

\* JS truthiness of a possibly-undefined string: defined and non-empty.
Truthy(m) == m # Undefined /\ m[1] # <<>>

\* String.prototype.trim strips the ECMAScript WhiteSpace and LineTerminator
\* characters from both ends.  In the order written: U+0020 SPACE, U+0009
\* TAB, U+000A LF, U+000C FF, U+000D CR, U+000B VT, U+00A0 NO-BREAK SPACE,
\* U+1680 OGHAM SPACE MARK, U+FEFF ZERO WIDTH NO-BREAK SPACE.  The others
\* (U+2000-U+200A, U+2028, U+2029, U+202F, U+205F, U+3000) cannot be
\* written in a string of this language, so no string here contains them.
Whitespace ==
    {" ", "\t", "\n", "\f", "\r", "", " ", " ", "﻿"}

RECURSIVE TrimStart(_)
TrimStart(s) ==
    IF s # <<>> /\ Head(s) \in Whitespace THEN TrimStart(Tail(s)) ELSE s

RECURSIVE TrimEnd(_)
TrimEnd(s) ==
    IF s # <<>> /\ s[Len(s)] \in Whitespace
    THEN TrimEnd(SubSeq(s, 1, Len(s) - 1)) ELSE s

\* Mutant: the fields are compared without trimming.
TrimNone(s) == s

Trim(s) == TrimEnd(TrimStart(s))

\* First index >= i at which sep occurs in s, 0 when there is none.
RECURSIVE IndexOf(_, _, _)
IndexOf(s, sep, i) ==
    IF i + Len(sep) - 1 > Len(s) THEN 0
    ELSE IF SubSeq(s, i, i + Len(sep) - 1) = sep THEN i
    ELSE IndexOf(s, sep, i + 1)

\* String.prototype.split with a non-empty separator: the pieces of s
\* between successive occurrences of sep, scanning left to right.
RECURSIVE Split(_, _)
Split(s, sep) ==
    LET k == IndexOf(s, sep, 1) IN
    IF k = 0 THEN <<s>>
    ELSE <<SubSeq(s, 1, k - 1)>> \o Split(SubSeq(s, k + Len(sep), Len(s)), sep)

\* Array indexing a[i] with a 0-based index: undefined past the end.
At(a, i) == IF i + 1 <= Len(a) THEN Some(a[i + 1]) ELSE Undefined

\* ------------------------------------------------------------------ jwt
Bearer == <<"B", "e", "a", "r", "e", "r", " ">>

\* process.env.JWT_SECRET, and a key the server does not hold.
JwtSecret == "k"
OtherKey == "z"

\* Mutant: tokens live two hours.
ExpiresInTwoHours == 2 * 60 * 60

\* { expiresIn: '1h' }, in seconds.
ExpiresIn == 3600

\* base64url text has no white space: a blank is written as "_".
B64(s) == [i \in DOMAIN s |-> IF s[i] \in Whitespace THEN "_" ELSE s[i]]

\* The compact serialisation of a payload signed with key.
JwtEncode(p, key) ==
    <<key, ToString(p.userId), ToString(p.iat), ToString(p.exp)>> \o B64(p.email)

\* jwt.sign(payload, secret, { expiresIn }): iat is the clock in seconds and
\* exp = iat + expiresIn.
JwtSign(payload, key, expiresIn, clock) ==
    JwtEncode([userId |-> payload.userId, email |-> payload.email,
               iat |-> clock, exp |-> clock + expiresIn], key)

\* ---------------------------------------------------------------- inputs
Usernames == {<<"u">>, <<" ", "\r">>}
Emails == {<<"a">>, <<"b">>, <<>>}
Passwords == {<<"p">>, <<"\t", "\f">>}

Times == {t * TickStep : t \in 0 .. MaxTicks + 1}

\* The numbers of S whose decimal text is c.
ParseNat(c, S) == {n \in S : ToString(n) = c}

\* jwt.verify(token, secret): the payload when token is the serialisation
\* of a payload under secret and clock < exp; throws otherwise.
JwtVerify(token, key, clock) ==
    LET bad == [ok |-> FALSE, payload |-> Undefined] IN
    IF Len(token) < 4 \/ token[1] # key THEN bad
    ELSE LET ids == ParseNat(token[2], 1 .. MaxUsers + 1)
             iats == ParseNat(token[3], Times)
             exps == ParseNat(token[4], {t + ExpiresIn : t \in Times})
             emails == {e \in Emails : B64(e) = SubSeq(token, 5, Len(token))}
         IN IF ids = {} \/ iats = {} \/ exps = {} \/ emails = {} THEN bad
            ELSE LET p == [userId |-> CHOOSE n \in ids : TRUE,
                           email |-> CHOOSE e \in emails : TRUE,
                           iat |-> CHOOSE n \in iats : TRUE,
                           exp |-> CHOOSE n \in exps : TRUE]
                 IN IF clock >= p.exp THEN bad
                    ELSE [ok |-> TRUE, payload |-> Some(p)]

\* ------------------------------------------------------------ checkAuth
\* context.req.headers: the record of the headers the request carries.
NoHeaders == [h \in {} |-> <<>>]
WithAuthorization(v) == [authorization |-> v]

HeaderOf(context) ==
    IF "authorization" \in DOMAIN context.req.headers
    THEN Some(context.req.headers.authorization) ELSE Undefined

\* checkAuth(context): kind "ok" with the decoded payload, or the error it
\* throws.  verified is the string handed to jwt.verify, when one was.
CheckAuth(context, clock) ==
    LET authHeader == HeaderOf(context) IN
    IF Truthy(authHeader)
    THEN LET token == At(Split(authHeader[1], Bearer), 1) IN
         IF Truthy(token)
         THEN LET v == JwtVerify(token[1], JwtSecret, clock) IN
              IF v.ok
              THEN [kind |-> "ok", verified |-> token, user |-> v.payload]
              ELSE [kind |-> "InvalidOrExpiredToken", verified |-> token,
                    user |-> Undefined]
         ELSE [kind |-> "MalformedScheme", verified |-> Undefined,
               user |-> Undefined]
    ELSE [kind |-> "MissingHeader", verified |-> Undefined, user |-> Undefined]

\* ------------------------------------------------------------ the stores
\* bcrypt.hash(password, 12): a string that is not the password.
Hash(password) == <<"$", "2", "a", "$", "1", "2", "$">> \o password

\* User.findOne({ email }): a User with exactly this email, or null.
FindOneByEmail(coll, email) == {u \in coll : u.email = email}

\* new User({...}).save(): the collection with the document added under a
\* fresh id.
SaveUser(coll, id, fields) ==
    coll \cup {[id |-> id, username |-> fields.username,
                email |-> fields.email, password |-> fields.password]}

EmployeeFields == {"first_name", "last_name", "email", "gender", "salary"}

\* new Employee({...}).save(): the collection with the document added under
\* a fresh id.
SaveEmployee(coll, id, fields) == (id :> fields) @@ coll

\* Employee.findById(id): the document, or null.
FindById(coll, id) == IF id \in DOMAIN coll THEN Some(coll[id]) ELSE Undefined

\* Employee.findByIdAndUpdate(id, { $set }, options): in one atomic step,
\* the fields of $set that are not undefined replace those of the document
\* with this id; the result is the document after the update (new: true),
\* or null when there is none and upsert is off.
FindByIdAndUpdate(coll, id, set, options) ==
    LET old == IF id \in DOMAIN coll THEN coll[id]
               ELSE [f \in EmployeeFields |-> "null"]
        doc == [f \in EmployeeFields |->
                   IF set[f] # Undefined THEN set[f][1] ELSE old[f]]
    IN IF id \in DOMAIN coll \/ options.upsert
       THEN [coll |-> (id :> doc) @@ coll, doc |-> Some(doc)]
       ELSE [coll |-> coll, doc |-> Undefined]

\* Employee.findByIdAndDelete(id): in one atomic step, removes the document
\* with this id and returns it, or returns null when there is none.
FindByIdAndDelete(coll, id) ==
    IF id \in DOMAIN coll
    THEN [coll |-> [i \in DOMAIN coll \ {id} |-> coll[i]],
          doc |-> Some(coll[id])]
    ELSE [coll |-> coll, doc |-> Undefined]

\* ----------------------------------------------------------------- state
VARIABLES
    users,        \* the User collection: a set of documents
    employees,    \* the Employee collection: id -> document
    nextUserId,   \* the next fresh User id
    nextEmpId,    \* the next fresh Employee id
    now,          \* the clock, in seconds
    reqs,         \* slot -> the request being served there
    issued,       \* the tokens signup has returned, with their issue time
    probe         \* a header value and the outcome of checkAuth on it

vars == <<users, employees, nextUserId, nextEmpId, now, reqs, issued, probe>>

Slots == 1 .. MaxReq

Idle ==
    [op |-> "none", pc |-> "idle", args |-> <<>>, context |-> <<>>,
     user |-> Undefined, resp |-> <<>>]

NoProbe == [header |-> Undefined, clock |-> 0, result |-> Undefined]

Init ==
    /\ users = {}
    /\ employees = [i \in {} |-> <<>>]
    /\ nextUserId = 1
    /\ nextEmpId = 1
    /\ now = 0
    /\ reqs = [s \in Slots |-> Idle]
    /\ issued = {}
    /\ probe = NoProbe

Error(kind) == [kind |-> kind, value |-> Undefined]
Ok(value) == [kind |-> "ok", value |-> Some(value)]

Done(r, resp) == [r EXCEPT !.pc = "done", !.resp = resp]

\* --------------------------------------------------------------- signup
\* Lines 72-75: the call up to the first await.
SignupCall(s, username, email, password) ==
    /\ reqs[s].pc = "idle"
    /\ nextUserId <= MaxUsers
    /\ LET r == [Idle EXCEPT !.op = "signup",
                    !.args = [username |-> username, email |-> email,
                              password |-> password]]
       IN reqs' = [reqs EXCEPT ![s] =
              IF Trim(email) = <<>> \/ Trim(password) = <<>>
                 \/ Trim(username) = <<>>
              THEN Done(r, Error("EmptyField"))
              ELSE [r EXCEPT !.pc = "findOne"]]
    /\ UNCHANGED <<users, employees, nextUserId, nextEmpId, now, issued, probe>>

\* Mutant: the result of the lookup is ignored.
SignupFindOneNoCheck(s) ==
    /\ reqs[s].pc = "findOne"
    /\ reqs' = [reqs EXCEPT ![s] = [@ EXCEPT !.pc = "save"]]
    /\ UNCHANGED <<users, employees, nextUserId, nextEmpId, now, issued, probe>>

\* Lines 76-80: the lookup completes; the handler rejects a registered
\* email, otherwise hashes the password and starts the save.
SignupFindOne(s) ==
    /\ reqs[s].pc = "findOne"
    /\ LET existingUser == FindOneByEmail(users, reqs[s].args.email) IN
       reqs' = [reqs EXCEPT ![s] =
              IF existingUser # {}
              THEN Done(@, Error("DuplicateEmail"))
              ELSE [@ EXCEPT !.pc = "save"]]
    /\ UNCHANGED <<users, employees, nextUserId, nextEmpId, now, issued, probe>>

\* Mutant: the token carries the username in place of the email.
TokenPayloadUsername(res) == [userId |-> res.id, email |-> res.username]

\* The claims signup puts in the token (line 89).
TokenPayload(res) == [userId |-> res.id, email |-> res.email]

\* Lines 81-98: the save completes; the handler signs a token for the saved
\* document and returns the document with the token.
SignupSave(s) ==
    /\ reqs[s].pc = "save"
    /\ nextUserId <= MaxUsers
    /\ LET a == reqs[s].args
           res == [id |-> nextUserId, username |-> a.username,
                   email |-> a.email, password |-> Hash(a.password)]
           token == JwtSign(TokenPayload(res), JwtSecret, ExpiresIn, now)
       IN /\ users' = SaveUser(users, nextUserId, res)
          /\ reqs' = [reqs EXCEPT ![s] =
                 Done(@, Ok([id |-> res.id, username |-> res.username,
                             email |-> res.email, password |-> res.password,
                             token |-> token]))]
          /\ issued' = issued \cup {[token |-> token, at |-> now]}
    /\ nextUserId' = nextUserId + 1
    /\ UNCHANGED <<employees, nextEmpId, now, probe>>

\* The response reaches the client and the slot is free again.
Respond(s) ==
    /\ reqs[s].pc = "done"
    /\ reqs' = [reqs EXCEPT ![s] = Idle]
    /\ UNCHANGED <<users, employees, nextUserId, nextEmpId, now, issued, probe>>

\* Time passes.
Tick ==
    /\ now + TickStep <= MaxTicks * TickStep
    /\ now' = now + TickStep
    /\ UNCHANGED <<users, employees, nextUserId, nextEmpId, reqs, issued, probe>>

NextSignup ==
    \/ \E s \in Slots, u \in Usernames, e \in Emails, p \in Passwords :
          SignupCall(s, u, e, p)
    \/ \E s \in Slots : SignupFindOne(s)
    \/ \E s \in Slots : SignupSave(s)
    \/ \E s \in Slots : Respond(s)
    \/ Tick

SpecSignup == Init /\ [][NextSignup]_vars

\* ---------------------------------------------------- employee mutations
\* The request context Apollo builds (line 132): ({ req }) => ({ req }).
Context(headers) == [req |-> [headers |-> headers]]

\* Mutant: the outcome of checkAuth is ignored.
GuardedNoAbort(op, args, headers, pc) ==
    LET context == Context(headers)
        auth == CheckAuth(context, now)
    IN [Idle EXCEPT !.op = op, !.args = args, !.context = context,
                    !.pc = pc, !.user = auth.user]

\* The start of addEmployee, updateEmployee and deleteEmployee (lines 101,
\* 106, 118): checkAuth runs synchronously; when it throws the resolver
\* rejects with that error, otherwise the store operation is started.
Guarded(op, args, headers, pc) ==
    LET context == Context(headers)
        auth == CheckAuth(context, now)
        r == [Idle EXCEPT !.op = op, !.args = args, !.context = context]
    IN IF auth.kind = "ok"
       THEN [r EXCEPT !.pc = pc, !.user = auth.user]
       ELSE Done(r, Error(auth.kind))

\* Line 101.
AddEmployeeCall(s, fields, headers) ==
    /\ reqs[s].pc = "idle"
    /\ nextEmpId <= MaxEmployees
    /\ reqs' = [reqs EXCEPT ![s] = Guarded("addEmployee", fields, headers, "saveEmployee")]
    /\ UNCHANGED <<users, employees, nextUserId, nextEmpId, now, issued, probe>>

\* Lines 102-103: the save completes and the new document is returned.
AddEmployeeSave(s) ==
    /\ reqs[s].pc = "saveEmployee"
    /\ nextEmpId <= MaxEmployees
    /\ employees' = SaveEmployee(employees, nextEmpId, reqs[s].args)
    /\ nextEmpId' = nextEmpId + 1
    /\ reqs' = [reqs EXCEPT ![s] = Done(@, Ok([id |-> nextEmpId, doc |-> reqs[s].args]))]
    /\ UNCHANGED <<users, nextUserId, now, issued, probe>>

\* A destructured resolver argument: undefined when the call omits it.
Arg(args, f) == IF f \in DOMAIN args THEN Some(args[f]) ELSE Undefined

\* Mutant: salary is left out of $set.
UpdateSetNoSalary(args) ==
    [f \in EmployeeFields |-> IF f = "salary" THEN Undefined ELSE Arg(args, f)]

\* Line 109: { $set: { first_name, last_name, email, gender, salary } }.
UpdateSet(args) == [f \in EmployeeFields |-> Arg(args, f)]

\* Mutant: the update is an upsert.
UpdateOptionsUpsert == [new |-> TRUE, runValidators |-> TRUE, upsert |-> TRUE]

\* Line 110: { new: true, runValidators: true }; upsert is not requested.
UpdateOptions == [new |-> TRUE, runValidators |-> TRUE, upsert |-> FALSE]

\* Line 106.
UpdateEmployeeCall(s, id, partial, headers) ==
    /\ reqs[s].pc = "idle"
    /\ reqs' = [reqs EXCEPT ![s] =
           Guarded("updateEmployee", [id |-> id, fields |-> partial], headers,
                   "findByIdAndUpdate")]
    /\ UNCHANGED <<users, employees, nextUserId, nextEmpId, now, issued, probe>>

\* Lines 107-115: the update completes; null becomes 'Employee not found'.
UpdateEmployeeStore(s) ==
    /\ reqs[s].pc = "findByIdAndUpdate"
    /\ LET a == reqs[s].args
           res == FindByIdAndUpdate(employees, a.id, UpdateSet(a.fields),
                                    UpdateOptions)
           updatedEmployee == res.doc
       IN /\ employees' = res.coll
          /\ reqs' = [reqs EXCEPT ![s] =
                 IF updatedEmployee = Undefined
                 THEN Done(@, Error("NotFound"))
                 ELSE Done(@, Ok([id |-> a.id, doc |-> updatedEmployee[1]]))]
    /\ UNCHANGED <<users, nextUserId, nextEmpId, now, issued, probe>>

\* Line 118.
DeleteEmployeeCall(s, id, headers) ==
    /\ reqs[s].pc = "idle"
    /\ reqs' = [reqs EXCEPT ![s] =
           Guarded("deleteEmployee", [id |-> id], headers, "findByIdAndDelete")]
    /\ UNCHANGED <<users, employees, nextUserId, nextEmpId, now, issued, probe>>

\* Mutant: a null result is not turned into an error.
DeleteEmployeeStoreNoCheck(s) ==
    /\ reqs[s].pc = "findByIdAndDelete"
    /\ employees' = FindByIdAndDelete(employees, reqs[s].args.id).coll
    /\ reqs' = [reqs EXCEPT ![s] = Done(@, Ok("Employee deleted successfully"))]
    /\ UNCHANGED <<users, nextUserId, nextEmpId, now, issued, probe>>

\* Lines 119-123: the delete completes; null becomes 'Employee not found'.
DeleteEmployeeStore(s) ==
    /\ reqs[s].pc = "findByIdAndDelete"
    /\ LET res == FindByIdAndDelete(employees, reqs[s].args.id)
           deletedEmployee == res.doc
       IN /\ employees' = res.coll
          /\ reqs' = [reqs EXCEPT ![s] =
                 IF deletedEmployee = Undefined
                 THEN Done(@, Error("NotFound"))
                 ELSE Done(@, Ok("Employee deleted successfully"))]
    /\ UNCHANGED <<users, nextUserId, nextEmpId, now, issued, probe>>

\* ---------------------------------------------------------------- queries
\* Line 69: getEmployeeById starts the lookup; no auth check.
GetEmployeeByIdCall(s, id) ==
    /\ reqs[s].pc = "idle"
    /\ reqs' = [reqs EXCEPT ![s] =
           [Idle EXCEPT !.op = "getEmployeeById", !.args = [id |-> id],
                        !.pc = "findById"]]
    /\ UNCHANGED <<users, employees, nextUserId, nextEmpId, now, issued, probe>>

\* Line 69: the lookup completes; the document or null is the result.
GetEmployeeByIdStore(s) ==
    /\ reqs[s].pc = "findById"
    /\ reqs' = [reqs EXCEPT ![s] =
           Done(@, [kind |-> "ok", value |-> FindById(employees, reqs[s].args.id)])]
    /\ UNCHANGED <<users, employees, nextUserId, nextEmpId, now, issued, probe>>

\* ------------------------------------------------- the employee requests
Ann == [first_name |-> "Ann", last_name |-> "Lee", email |-> "ann@x.com",
        gender |-> "F", salary |-> 50000]
Bob == [first_name |-> "Bob", last_name |-> "Ray", email |-> "bob@x.com",
        gender |-> "M", salary |-> 40000]
NewValues == [first_name |-> "Amy", last_name |-> "Poe", email |-> "amy@x.com",
              gender |-> "X", salary |-> 55000]

Partial(S) == [f \in S |-> NewValues[f]]

\* A token signed with a key that is not the server's.
Forged ==
    JwtSign([userId |-> 1, email |-> <<"a">>], OtherKey, ExpiresIn, 0)

\* The header sets a client sends: none, the scheme without a token, a
\* forged token, and each token signup has returned.
ClientHeaders ==
    {NoHeaders, WithAuthorization(Bearer), WithAuthorization(Bearer \o Forged)}
        \cup {WithAuthorization(Bearer \o i.token) : i \in issued}

\* The state after signup("u", "a", "p") has completed at clock 0.
FirstUser ==
    [id |-> 1, username |-> <<"u">>, email |-> <<"a">>,
     password |-> Hash(<<"p">>)]

\* The token that signup returned.
FirstToken == JwtSign(TokenPayload(FirstUser), JwtSecret, ExpiresIn, 0)

InitEmployees ==
    /\ users = SaveUser({}, 1, FirstUser)
    /\ employees = [i \in {} |-> <<>>]
    /\ nextUserId = 2
    /\ nextEmpId = 1
    /\ now = 0
    /\ reqs = [s \in Slots |-> Idle]
    /\ issued = {[token |-> FirstToken, at |-> 0]}
    /\ probe = NoProbe

EmployeeIds == 1 .. MaxEmployees

\* The headers of a client that presents a token signup has returned.
TokenHeaders == {WithAuthorization(Bearer \o i.token) : i \in issued}

\* One client at a time: signups, then employee mutations under every kind
\* of header, while time passes.
NextGate ==
    \/ \E e \in {<<"a">>, <<"b">>} : SignupCall(1, <<"u">>, e, <<"p">>)
    \/ SignupFindOne(1)
    \/ SignupSave(1)
    \/ \E h \in ClientHeaders : AddEmployeeCall(1, Ann, h)
    \/ AddEmployeeSave(1)
    \/ \E id \in EmployeeIds, h \in ClientHeaders :
          UpdateEmployeeCall(1, id, Partial({"salary"}), h)
    \/ UpdateEmployeeStore(1)
    \/ \E id \in EmployeeIds, h \in ClientHeaders : DeleteEmployeeCall(1, id, h)
    \/ DeleteEmployeeStore(1)
    \/ Respond(1)
    \/ Tick

SpecGate == Init /\ [][NextGate]_vars

\* Authenticated clients whose requests interleave.
NextRace ==
    \/ \E s \in Slots, h \in TokenHeaders : AddEmployeeCall(s, Ann, h)
    \/ \E s \in Slots : AddEmployeeSave(s)
    \/ \E s \in Slots, id \in EmployeeIds, h \in TokenHeaders :
          UpdateEmployeeCall(s, id, Partial({"salary"}), h)
    \/ \E s \in Slots : UpdateEmployeeStore(s)
    \/ \E s \in Slots, id \in EmployeeIds, h \in TokenHeaders :
          DeleteEmployeeCall(s, id, h)
    \/ \E s \in Slots : DeleteEmployeeStore(s)
    \/ \E s \in Slots, id \in EmployeeIds : GetEmployeeByIdCall(s, id)
    \/ \E s \in Slots : GetEmployeeByIdStore(s)
    \/ \E s \in Slots : Respond(s)

SpecRace == InitEmployees /\ [][NextRace]_vars

\* The state after addEmployee(Ann) and addEmployee(Bob) have completed.
InitUpdate ==
    /\ users = SaveUser({}, 1, FirstUser)
    /\ employees = SaveEmployee(SaveEmployee([i \in {} |-> <<>>], 1, Ann), 2, Bob)
    /\ nextUserId = 2
    /\ nextEmpId = 3
    /\ now = 0
    /\ reqs = [s \in Slots |-> Idle]
    /\ issued = {[token |-> FirstToken, at |-> 0]}
    /\ probe = NoProbe

\* One client updating every subset of the fields and reading back.
NextUpdate ==
    \/ \E id \in {1, 2}, h \in TokenHeaders, S \in SUBSET EmployeeFields :
          UpdateEmployeeCall(1, id, Partial(S), h)
    \/ UpdateEmployeeStore(1)
    \/ \E id \in {1, 2} : GetEmployeeByIdCall(1, id)
    \/ GetEmployeeByIdStore(1)
    \/ Respond(1)

SpecUpdate == InitUpdate /\ [][NextUpdate]_vars

\* ------------------------------------------------ checkAuth on its own
RECURSIVE Flatten(_)
Flatten(ss) == IF ss = <<>> THEN <<>> ELSE Head(ss) \o Flatten(Tail(ss))

\* Header values: every concatenation of at most MaxPieces pieces.
Pieces == {Bearer, FirstToken, <<"x">>}

HeaderValues ==
    {Flatten(ss) : ss \in UNION {[1 .. n -> Pieces] : n \in 0 .. MaxPieces}}

ProbeHeaders == {NoHeaders} \cup {WithAuthorization(v) : v \in HeaderValues}

\* checkAuth is applied to a request carrying the headers h at clock t.
Probe(h, t) ==
    /\ probe' = [header |-> Some(h), clock |-> t,
                 result |-> Some(CheckAuth(Context(h), t))]
    /\ UNCHANGED <<users, employees, nextUserId, nextEmpId, now, reqs, issued>>

NextAuth == \E h \in ProbeHeaders, t \in Times : Probe(h, t)

SpecAuth == InitEmployees /\ [][NextAuth]_vars

\* ================================================================ claims
Blank(str) == \A i \in DOMAIN str : str[i] \in Whitespace

AnyBlank(a) == Blank(a.username) \/ Blank(a.email) \/ Blank(a.password)

Registered(email) == \E u \in users : u.email = email

MutatingOps == {"addEmployee", "updateEmployee", "deleteEmployee"}

StorePcs == {"saveEmployee", "findByIdAndUpdate", "findByIdAndDelete"}

\* C1: no two User documents share an email, whatever way the lookups and
\* saves of concurrent signups interleave.
C1_UniqueEmails ==
    \A u \in users, v \in users : u.email = v.email => u = v

\* C2: a mutating resolver checks auth at the call, before any store access:
\* the call step never changes the Employee collection; when checkAuth fails
\* the request ends there with that failure; without an Authorization header
\* the failure is MissingHeader; and only a request that passed the check and
\* reached its store operation changes the Employee collection.
C2_AuthBeforeStore ==
    [][/\ \A s \in Slots :
             (reqs[s].pc = "idle" /\ reqs'[s].op \in MutatingOps) =>
                LET r == reqs'[s]
                    c == CheckAuth(r.context, now)
                IN /\ employees' = employees
                   /\ c.kind # "ok" => r.pc = "done" /\ r.resp = Error(c.kind)
                   /\ "authorization" \notin DOMAIN r.context.req.headers =>
                         r.pc = "done" /\ r.resp = Error("MissingHeader")
       /\ employees' # employees =>
             \E s \in Slots :
                /\ reqs[s].op \in MutatingOps
                /\ reqs[s].pc \in StorePcs
                /\ reqs[s].user # Undefined
                /\ reqs'[s].pc = "done"
      ]_vars

C2_Witness ==
    \E s \in Slots :
       /\ reqs[s].op \in MutatingOps
       /\ reqs[s].pc = "done"
       /\ reqs[s].resp = Error("MissingHeader")
       /\ DOMAIN employees # {}

\* The string a well-formed header value carries after 'Bearer '.
HasBearerPrefix(v) ==
    Len(v) >= Len(Bearer) /\ SubSeq(v, 1, Len(Bearer)) = Bearer

WellFormed(v) == HasBearerPrefix(v) /\ Len(v) > Len(Bearer)

AfterPrefix(v) == SubSeq(v, Len(Bearer) + 1, Len(v))

\* C3: for a present Authorization header value, checkAuth fails with
\* MalformedScheme exactly when the value is not 'Bearer ' followed by a
\* non-empty token; a well-formed value has all that follows the prefix
\* verified; a value that does not start with the prefix has nothing verified.
C3_MalformedIffNotBearerToken ==
    (probe.result # Undefined
        /\ "authorization" \in DOMAIN probe.header[1]) =>
       LET v == probe.header[1].authorization
           r == probe.result[1]
       IN /\ (r.kind = "MalformedScheme") <=> ~WellFormed(v)
          /\ WellFormed(v) => r.verified = Some(AfterPrefix(v))
          /\ ~HasBearerPrefix(v) => r.verified = Undefined

\* C4: a mutating request that presents a token signup issued more than one
\* hour earlier ends at the call with InvalidOrExpiredToken and leaves the
\* Employee collection alone.
C4_ExpiredTokenRejected ==
    [][\A s \in Slots, i \in issued :
          (/\ reqs[s].pc = "idle"
           /\ reqs'[s].op \in MutatingOps
           /\ reqs'[s].context = Context(WithAuthorization(Bearer \o i.token))
           /\ now > i.at + 60 * 60) =>
             /\ reqs'[s].pc = "done"
             /\ reqs'[s].resp = Error("InvalidOrExpiredToken")
             /\ employees' = employees
      ]_vars

C4_Witness ==
    \E s \in Slots, i \in issued :
       /\ reqs[s].op \in MutatingOps
       /\ reqs[s].context = Context(WithAuthorization(Bearer \o i.token))
       /\ now > i.at + 60 * 60
       /\ reqs[s].pc = "done"
       /\ reqs[s].resp = Error("InvalidOrExpiredToken")
       /\ DOMAIN employees # {}

\* C5: a signup whose three fields are non-blank goes on to the lookup; when
\* the lookup finds the email unregistered it goes on to the save; the save
\* adds exactly one User, carrying the given username and email, and the
\* response carries a token that checkAuth accepts at every clock from its
\* issue to less than one hour later, decoding to that User's id and email.
C5_SignupIssuesValidToken ==
    [][\A s \in Slots :
          /\ (reqs[s].pc = "idle" /\ reqs'[s].op = "signup"
                 /\ ~AnyBlank(reqs'[s].args)) => reqs'[s].pc = "findOne"
          /\ (reqs[s].pc = "findOne" /\ reqs'[s].pc # "findOne"
                 /\ ~Registered(reqs[s].args.email)) => reqs'[s].pc = "save"
          /\ (reqs[s].pc = "save" /\ reqs'[s].pc # "save") =>
                /\ reqs'[s].pc = "done"
                /\ reqs'[s].resp.kind = "ok"
                /\ LET v == reqs'[s].resp.value[1]
                       new == users' \ users
                   IN /\ users \subseteq users'
                      /\ Cardinality(new) = 1
                      /\ \A u \in new :
                            /\ u.id = v.id
                            /\ u.email = v.email
                            /\ u.email = reqs[s].args.email
                            /\ u.username = reqs[s].args.username
                            /\ \A w \in users : w.id # u.id
                      /\ \A t \in Times :
                            (now <= t /\ t < now + 60 * 60) =>
                               LET c == CheckAuth(
                                      Context(WithAuthorization(Bearer \o v.token)), t)
                               IN /\ c.kind = "ok"
                                  /\ c.user[1].userId = v.id
                                  /\ c.user[1].email = v.email
      ]_vars

C5_Witness ==
    \E s \in Slots :
       /\ reqs[s].op = "signup"
       /\ reqs[s].pc = "done"
       /\ reqs[s].resp.kind = "ok"
       /\ \E u \in users : u.id = reqs[s].resp.value[1].id
       /\ now > 0

\* C6 as stated: a signup with a registered email fails with DuplicateEmail
\* whatever the username and password, blank ones included, and the User
\* collection is unchanged.
C6_DuplicateWhateverTheOtherFields ==
    [][\A s \in Slots :
          /\ (reqs[s].pc = "idle" /\ reqs'[s].op = "signup"
                 /\ Registered(reqs'[s].args.email)) =>
                /\ users' = users
                /\ reqs'[s].pc = "done" => reqs'[s].resp = Error("DuplicateEmail")
          /\ (reqs[s].pc = "findOne" /\ reqs'[s].pc # "findOne"
                 /\ Registered(reqs[s].args.email)) =>
                /\ users' = users
                /\ reqs'[s].pc = "done"
                /\ reqs'[s].resp = Error("DuplicateEmail")
      ]_vars

\* C6 amended: a signup with a registered email fails with DuplicateEmail
\* when its username and password are non-blank, and with EmptyField when
\* one of them is blank; in both cases the User collection is unchanged.
C6_DuplicateUnlessBlank ==
    [][\A s \in Slots :
          /\ (reqs[s].pc = "idle" /\ reqs'[s].op = "signup"
                 /\ Registered(reqs'[s].args.email)) =>
                /\ users' = users
                /\ IF AnyBlank(reqs'[s].args)
                   THEN reqs'[s].pc = "done" /\ reqs'[s].resp = Error("EmptyField")
                   ELSE reqs'[s].pc = "findOne"
          /\ (reqs[s].pc = "findOne" /\ reqs'[s].pc # "findOne"
                 /\ Registered(reqs[s].args.email)) =>
                /\ users' = users
                /\ reqs'[s].pc = "done"
                /\ reqs'[s].resp = Error("DuplicateEmail")
      ]_vars

C6_Witness ==
    \E s \in Slots :
       /\ reqs[s].op = "signup"
       /\ reqs[s].pc = "done"
       /\ reqs[s].resp = Error("DuplicateEmail")
       /\ Registered(reqs[s].args.email)

\* C7: a successful updateEmployee gives each supplied field its new value,
\* leaves each omitted field of that Employee and every other Employee as
\* they were, and a following getEmployeeById returns the stored document.
C7_UpdateOnlySuppliedFields ==
    [][\A s \in Slots :
          /\ (reqs[s].pc = "findByIdAndUpdate" /\ reqs'[s].pc = "done"
                 /\ reqs[s].args.id \in DOMAIN employees) =>
                LET id == reqs[s].args.id
                    fields == reqs[s].args.fields
                IN /\ reqs'[s].resp.kind = "ok"
                   /\ DOMAIN employees' = DOMAIN employees
                   /\ \A f \in EmployeeFields :
                         employees'[id][f] =
                            IF f \in DOMAIN fields THEN fields[f]
                            ELSE employees[id][f]
                   /\ \A j \in DOMAIN employees \ {id} :
                         employees'[j] = employees[j]
                   /\ reqs'[s].resp.value[1].doc = employees'[id]
          /\ (reqs[s].pc = "findById" /\ reqs'[s].pc = "done"
                 /\ reqs[s].args.id \in DOMAIN employees) =>
                reqs'[s].resp.value = Some(employees[reqs[s].args.id])
      ]_vars

\* The example: Ann's salary alone is updated to 55000.
C7_Witness ==
    \E s \in Slots :
       /\ reqs[s].op = "getEmployeeById"
       /\ reqs[s].pc = "done"
       /\ reqs[s].resp.value # Undefined
       /\ reqs[s].resp.value[1] = [Ann EXCEPT !.salary = 55000]

\* C8: an Employee id that was created and is gone stays gone, whatever
\* step comes next, and getEmployeeById on it returns null.
C8_DeletedStaysDeleted ==
    [][/\ \A id \in 1 .. nextEmpId - 1 :
             id \notin DOMAIN employees => id \notin DOMAIN employees'
       /\ \A s \in Slots :
             (reqs[s].pc = "findById" /\ reqs'[s].pc = "done"
                 /\ reqs[s].args.id \notin DOMAIN employees) =>
                reqs'[s].resp.value = Undefined
      ]_vars

\* A read of a deleted id answered while an update of that id has just
\* been answered too.
C8_Witness ==
    \E s \in Slots, t \in Slots :
       /\ reqs[s].op = "getEmployeeById"
       /\ reqs[s].pc = "done"
       /\ reqs[s].args.id < nextEmpId
       /\ reqs[s].resp.value = Undefined
       /\ reqs[t].op = "updateEmployee"
       /\ reqs[t].pc = "done"
       /\ reqs[t].args.id = reqs[s].args.id
       /\ reqs[t].resp = Error("NotFound")

\* C9: a signup with a blank username, email or password ends at the call
\* with EmptyField: it never reaches the lookup or the save, and the call
\* leaves the User collection unchanged.
C9_BlankFieldRejected ==
    [][\A s \in Slots :
          (reqs'[s].op = "signup" /\ AnyBlank(reqs'[s].args)) =>
             /\ reqs'[s].pc = "done"
             /\ reqs'[s].resp = Error("EmptyField")
             /\ reqs[s].pc = "idle" => users' = users
      ]_vars

C9_Witness ==
    \E s \in Slots :
       /\ reqs[s].op = "signup"
       /\ reqs[s].pc = "done"
       /\ reqs[s].resp = Error("EmptyField")
       /\ Blank(reqs[s].args.password)
       /\ ~Blank(reqs[s].args.username)
       /\ ~Blank(reqs[s].args.email)

\* C10: an authenticated updateEmployee or deleteEmployee on an id that is
\* not in the Employee collection fails with NotFound and leaves the
\* collection as it was.
C10_AbsentIdNotFound ==
    [][\A s \in Slots :
          (/\ reqs[s].pc \in {"findByIdAndUpdate", "findByIdAndDelete"}
           /\ reqs'[s].pc = "done"
           /\ reqs[s].args.id \notin DOMAIN employees) =>
             /\ reqs'[s].resp = Error("NotFound")
             /\ employees' = employees
      ]_vars

C10_Witness ==
    \E s \in Slots :
       /\ reqs[s].op = "deleteEmployee"
       /\ reqs[s].pc = "done"
       /\ reqs[s].resp = Error("NotFound")
       /\ DOMAIN employees # {}

====
